---- MODULE Spec2Model ----
(***************************************************************************)
(* StreamingService.handleStreamingResponse (services/streaming-service.ts) *)
(* as a state machine.                                                      *)
(*                                                                          *)
(* Text is a sequence of symbols.  A symbol is either one character         *)
(* ("\n", "\r", " ", "{", "}", "x", ...) or one lexeme that the code only   *)
(* ever tests as a whole: the literals "data: ", "event:", "id:", "retry:"  *)
(* and "[DONE]", a JSON key (content, text, ...), or a JSON value literal.  *)
(* U+00E9 is the one two-byte character of the alphabet: on the wire it is  *)
(* the bytes C3 A9; every other symbol is one wire unit.                    *)
(***************************************************************************)
EXTENDS Integers, Sequences, FiniteSets, TLC

(***************************************************************************)
(* Bounds of the model.                                                     *)
(***************************************************************************)
MaxLines == 3
MaxChunks == 3

(***************************************************************************)
(* Generic text helpers (String.prototype.trim / startsWith).               *)
(***************************************************************************)
WhiteSpace == {" ", "\r", "\n", "\t"}

Last(s) == s[Len(s)]

Front(s) == SubSeq(s, 1, Len(s) - 1)

RECURSIVE TrimStart(_)
TrimStart(s) ==
    IF s # <<>> /\ Head(s) \in WhiteSpace THEN TrimStart(Tail(s)) ELSE s

RECURSIVE TrimEnd(_)
TrimEnd(s) ==
    IF s # <<>> /\ Last(s) \in WhiteSpace THEN TrimEnd(Front(s)) ELSE s

trim(s) == TrimEnd(TrimStart(s))

startsWith(s, sym) == s # <<>> /\ Head(s) = sym

RECURSIVE Flatten(_)
Flatten(ss) == IF ss = <<>> THEN <<>> ELSE Head(ss) \o Flatten(Tail(ss))

IsPrefix(s, t) == Len(s) <= Len(t) /\ SubSeq(t, 1, Len(s)) = s

(***************************************************************************)
(* TextEncoder.encode / TextDecoder.decode(value, {stream: true}).          *)
(* decode holds an incomplete trailing sequence (the lead byte C3) in the   *)
(* decoder and emits U+FFFD for a malformed sequence.                       *)
(***************************************************************************)
RECURSIVE encode(_)
encode(text) ==
    IF text = <<>> THEN <<>>
    ELSE (IF Head(text) = "U+00E9" THEN <<"C3", "A9">> ELSE <<Head(text)>>)
         \o encode(Tail(text))

RECURSIVE DecodeFrom(_, _, _)
DecodeFrom(pend, bytes, out) ==
    IF bytes = <<>> THEN [text |-> out, pending |-> pend]
    ELSE LET b == Head(bytes) IN
         IF pend # <<>>
         THEN IF b = "A9"
              THEN DecodeFrom(<<>>, Tail(bytes), Append(out, "U+00E9"))
              ELSE DecodeFrom(<<>>, bytes, Append(out, "U+FFFD"))
         ELSE IF b = "C3" THEN DecodeFrom(<<"C3">>, Tail(bytes), out)
              ELSE IF b = "A9" THEN DecodeFrom(<<>>, Tail(bytes), Append(out, "U+FFFD"))
              ELSE DecodeFrom(<<>>, Tail(bytes), Append(out, b))

\* decode without {stream: true}: an incomplete sequence is not held.
DecodeNoStream(pend, bytes) ==
    LET r == DecodeFrom(<<>>, bytes, <<>>) IN
    [text |-> IF r.pending = <<>> THEN r.text ELSE Append(r.text, "U+FFFD"),
     pending |-> <<>>]

decode(pend, bytes) == DecodeFrom(pend, bytes, <<>>)

(***************************************************************************)
(* buffer.split(/\r?\n/): every "\n" ends a segment, one "\r" right before  *)
(* it belongs to the terminator.  The last segment is what follows the last *)
(* terminator (possibly empty).                                             *)
(***************************************************************************)
StripCR(s) == IF s # <<>> /\ Last(s) = "\r" THEN Front(s) ELSE s

RECURSIVE SplitFrom(_, _, _)
SplitFrom(s, seg, acc) ==
    IF s = <<>> THEN Append(acc, seg)
    ELSE IF Head(s) = "\n"
         THEN SplitFrom(Tail(s), <<>>, Append(acc, StripCR(seg)))
         ELSE SplitFrom(Tail(s), Append(seg, Head(s)), acc)

split(s) == SplitFrom(s, <<>>, <<>>)

(***************************************************************************)
(* JSON.parse on the record grammar of StreamChunk: optional white space,   *)
(* "{", any number of key/value pairs, "}", optional white space; or the    *)
(* empty array "[" "]".  Anything else throws (ok = FALSE).  A value is     *)
(* [t, v]: a string with its text, a boolean, or undefined (field absent).  *)
(* A key given twice keeps the later value, as JSON.parse does.             *)
(***************************************************************************)
Keys == {"content", "text", "delta", "chunk", "message", "done"}

StringLex == {"a", "b", "c", "d", "e", "U+00E9", "\\n", "\"\""}

ValueLex == StringLex \cup {"true", "false"}

Undefined == [t |-> "undef", v |-> <<>>]

ValueOf(lex) ==
    IF lex \in {"true", "false"} THEN [t |-> "bool", v |-> <<lex>>]
    ELSE IF lex = "\"\"" THEN [t |-> "str", v |-> <<>>]
    ELSE IF lex = "\\n" THEN [t |-> "str", v |-> <<"\n">>]
    ELSE [t |-> "str", v |-> <<lex>>]

NoFields == [k \in Keys |-> Undefined]

RECURSIVE ParseFields(_, _)
ParseFields(m, acc) ==
    IF m = <<>> THEN [ok |-> TRUE, data |-> acc]
    ELSE IF Head(m) \in WhiteSpace THEN ParseFields(Tail(m), acc)
    ELSE IF Len(m) >= 2 /\ m[1] \in Keys /\ m[2] \in ValueLex
         THEN ParseFields(SubSeq(m, 3, Len(m)), [acc EXCEPT ![m[1]] = ValueOf(m[2])])
         ELSE [ok |-> FALSE, data |-> NoFields]

JSONparse(s) ==
    LET t == trim(s) IN
    IF Len(t) >= 2 /\ Head(t) = "{" /\ Last(t) = "}"
    THEN ParseFields(SubSeq(t, 2, Len(t) - 1), NoFields)
    ELSE IF t = <<"[", "]">> THEN [ok |-> TRUE, data |-> NoFields]
    ELSE [ok |-> FALSE, data |-> NoFields]

(***************************************************************************)
(* JavaScript truthiness and the || chain of lines 354 and 395.             *)
(***************************************************************************)
Truthy(x) ==
    \/ x.t = "str" /\ x.v # <<>>
    \/ x.t = "bool" /\ x.v = <<"true">>

OrElse(a, b) == IF Truthy(a) THEN a ELSE b

\* The chain with text consulted before content.
ContentOfSwapped(d) ==
    OrElse(d["text"], OrElse(d["content"],
        OrElse(d["delta"], OrElse(d["chunk"], d["message"]))))

ContentOf(d) ==
    OrElse(OrElse(OrElse(OrElse(d["content"], d["text"]), d["delta"]), d["chunk"]),
           d["message"])

(***************************************************************************)
(* One iteration of the for loop over complete lines, up to the parsed      *)
(* record (lines 328-351).  tag says where the iteration went: "blank",     *)
(* "control", "sentinel", "noise" (the four continue statements),           *)
(* "parseError" (the catch) or "record".                                    *)
(***************************************************************************)
Skip(tag) == [tag |-> tag, data |-> NoFields]

\* LineStep with the event:, id: and retry: fields read as data: is.
LineStepStripsAnyField(line) ==
    IF trim(line) = <<>> THEN Skip("blank")
    ELSE LET field == startsWith(line, "data: ") \/ startsWith(line, "event:")
                        \/ startsWith(line, "id:") \/ startsWith(line, "retry:")
             jsonStr == IF field THEN trim(Tail(line)) ELSE line
         IN  IF jsonStr = <<"[DONE]">> \/ jsonStr = <<"data: ", "[DONE]">>
             THEN Skip("sentinel")
             ELSE IF jsonStr = <<>> \/ (~startsWith(jsonStr, "{") /\ ~startsWith(jsonStr, "["))
             THEN Skip("noise")
             ELSE LET p == JSONparse(jsonStr) IN
                  IF p.ok THEN [tag |-> "record", data |-> p.data]
                  ELSE Skip("parseError")

\* LineStep with the "data: " prefix left on the candidate.
LineStepKeepsPrefix(line) ==
    IF trim(line) = <<>> THEN Skip("blank")
    ELSE IF ~startsWith(line, "data: ")
            /\ (startsWith(line, "event:") \/ startsWith(line, "id:")
                \/ startsWith(line, "retry:"))
    THEN Skip("control")
    ELSE LET jsonStr == line
         IN  IF jsonStr = <<"[DONE]">> \/ jsonStr = <<"data: ", "[DONE]">>
             THEN Skip("sentinel")
             ELSE IF jsonStr = <<>> \/ (~startsWith(jsonStr, "{") /\ ~startsWith(jsonStr, "["))
             THEN Skip("noise")
             ELSE LET p == JSONparse(jsonStr) IN
                  IF p.ok THEN [tag |-> "record", data |-> p.data]
                  ELSE Skip("parseError")

LineStep(line) ==
    IF trim(line) = <<>> THEN Skip("blank")
    ELSE IF ~startsWith(line, "data: ")
            /\ (startsWith(line, "event:") \/ startsWith(line, "id:")
                \/ startsWith(line, "retry:"))
    THEN Skip("control")
    ELSE LET jsonStr == IF startsWith(line, "data: ") THEN trim(Tail(line)) ELSE line
         IN  IF jsonStr = <<"[DONE]">> \/ jsonStr = <<"data: ", "[DONE]">>
             THEN Skip("sentinel")
             ELSE IF jsonStr = <<>> \/ (~startsWith(jsonStr, "{") /\ ~startsWith(jsonStr, "["))
             THEN Skip("noise")
             ELSE LET p == JSONparse(jsonStr) IN
                  IF p.ok THEN [tag |-> "record", data |-> p.data]
                  ELSE Skip("parseError")

(***************************************************************************)
(* The remainder block after the loop (lines 387-407), up to the parsed     *)
(* record.                                                                  *)
(***************************************************************************)
RemainderStep(buf) ==
    IF trim(buf) = <<>> THEN Skip("blank")
    ELSE LET t == trim(buf)
             jsonStr == IF startsWith(t, "data: ") THEN trim(Tail(t)) ELSE t
         IN  IF jsonStr # <<"[DONE]">> /\ startsWith(jsonStr, "{")
             THEN LET p == JSONparse(jsonStr) IN
                  IF p.ok THEN [tag |-> "record", data |-> p.data]
                  ELSE Skip("parseError")
             ELSE Skip("noise")

(***************************************************************************)
(* The Editor: the document is one text, lines are separated by "\n", a     *)
(* position is {line, ch} with both counted from 0.                         *)
(***************************************************************************)
RECURSIVE CountLF(_)
CountLF(doc) ==
    IF doc = <<>> THEN 0
    ELSE (IF Head(doc) = "\n" THEN 1 ELSE 0) + CountLF(Tail(doc))

lastLine(doc) == CountLF(doc)

getLine(doc, n) == split(doc)[n + 1]

RECURSIVE LineStart(_, _)
LineStart(doc, n) ==
    IF n = 0 THEN 0
    ELSE LET i == CHOOSE j \in 1..Len(doc) :
                    doc[j] = "\n" /\ \A k \in 1..(j - 1) : doc[k] # "\n"
         IN  i + LineStart(SubSeq(doc, i + 1, Len(doc)), n - 1)

OffsetOf(doc, pos) == LineStart(doc, pos.line) + pos.ch

\* replaceRange with the column of the position dropped.
replaceRangeAtLineStart(doc, text, pos) ==
    LET o == LineStart(doc, pos.line) IN
    SubSeq(doc, 1, o) \o text \o SubSeq(doc, o + 1, Len(doc))

replaceRange(doc, text, pos) ==
    LET o == OffsetOf(doc, pos) IN
    SubSeq(doc, 1, o) \o text \o SubSeq(doc, o + 1, Len(doc))

EndOf(doc) == [line |-> lastLine(doc), ch |-> Len(getLine(doc, lastLine(doc)))]


(***************************************************************************)
(* Inputs.  A response is a script of at most MaxLines lines, every line    *)
(* followed by the server's line terminator ("\n" or "\r\n"), the last one  *)
(* possibly unterminated.                                                   *)
(***************************************************************************)
RecA == <<"{", "content", "a", "}">>
RecB == <<"data: ", "{", "text", "U+00E9", "}">>
RecDone == <<"{", "content", "\\n", "done", "true", "}">>
DoneOnly == <<"{", "done", "true", "}">>
SentinelSSE == <<"data: ", "[DONE]">>
SentinelBare == <<"[DONE]">>
Malformed == <<"{", "content", "a">>
NoiseLine == <<"x">>
DataNoise == <<"data: ", "x">>
EventLine == <<"event:", "{", "content", "b", "}">>
IdLine == <<"id:", "x">>
RetryLine == <<"retry:", "x">>
EmptyLine == <<>>
SpaceLine == <<" ">>
PadRec == <<" ", "{", "content", "b", "}">>
PadData == <<" ", "data: ", "{", "content", "c", "}">>
PadControl == <<" ", "event:", "x">>
DoneFalse == <<"{", "content", "b", "done", "false", "}">>
DoneText == <<"{", "done", "a", "}">>
TailRec == <<"{", "content", "a", "}", "U+00E9">>

SentinelLines == {SentinelSSE, SentinelBare}
FaultLines == {Malformed, NoiseLine}

DoneLines == {RecDone, DoneOnly}

\* Spec: records with and without the done flag, bare and SSE-framed.
Catalogue == {RecA, RecB, RecDone, DoneOnly}

\* SpecFaults: records among lines that are not JSON or do not parse.
FaultCatalogue == {RecA, RecDone, Malformed, NoiseLine}

\* SpecFraming: records among [DONE] markers of both forms.
FramingCatalogue == {RecA, RecDone, SentinelSSE, SentinelBare}

\* SpecEnvelope: bare and SSE-framed records, the last one with the done flag.
EnvelopeCatalogue == {RecA, RecB, RecDone}

\* SpecSinkThrows: records with and without the done flag.
SinkCatalogue == {RecA, RecDone}

\* SpecTruncated: responses that may end in the middle of a character.
TruncatedCatalogue == {RecA, RecB, TailRec}

\* SpecLayout: records among lines that begin with white space.
LayoutCatalogue == {RecA, PadRec, PadData, PadControl}

\* SpecDoneFlag: the done field true, false, absent and not a boolean.
DoneFlagCatalogue == {RecA, DoneOnly, DoneFalse, DoneText}

\* SpecNoPayload: records among SSE fields, blank lines, [DONE] markers and
\* text that is not JSON, one family of lines per response.
ControlCatalogue == {RecA, EventLine, IdLine, RetryLine}
BlankCatalogue == {RecA, EmptyLine, SpaceLine, NoiseLine}
MarkerCatalogue == {RecB, SentinelSSE, SentinelBare, DataNoise}

ControlLines == {EventLine, IdLine, RetryLine}
BlankLines == {EmptyLine, SpaceLine}
NoiseLines == {NoiseLine, DataNoise}

ScriptsOver(cat) == UNION {[1..n -> cat] : n \in 0..MaxLines}

Terminator(crlf) == IF crlf THEN <<"\r", "\n">> ELSE <<"\n">>

ResponseText(in) ==
    Flatten([i \in 1..Len(in.lines) |->
        in.lines[i] \o (IF i = Len(in.lines) /\ ~in.terminated
                        THEN <<>> ELSE Terminator(in.crlf))])

InputsOver(cat) ==
    {in \in [lines : ScriptsOver(cat), crlf : BOOLEAN, terminated : BOOLEAN] :
        in.lines = <<>> => (in.terminated /\ ~in.crlf)}

\* Responses terminated by "\n" only.
InputsLF(cat) == {in \in InputsOver(cat) : ~in.crlf}

NoPayloadInputs ==
    InputsLF(ControlCatalogue) \cup InputsLF(BlankCatalogue)
        \cup InputsLF(MarkerCatalogue)

\* A response may be cut after the first byte of its last character.
TruncatedInputs ==
    {[lines |-> in.lines, crlf |-> in.crlf, terminated |-> in.terminated, cut |-> c] :
        in \in InputsOver(TruncatedCatalogue), c \in BOOLEAN}

Wire(in) ==
    LET bytes == encode(ResponseText(in)) IN
    IF in.cut /\ bytes # <<>> /\ Last(bytes) = "A9" THEN Front(bytes) ELSE bytes

\* SpecPair: two responses of two records each, with deltas of their own.
RecC == <<"{", "content", "c", "}">>
RecD == <<"data: ", "{", "content", "d", "}">>

PairInputs ==
    {[lines |-> <<RecA, RecB>>, crlf |-> FALSE, terminated |-> t] : t \in BOOLEAN}

PeerInputs ==
    {[lines |-> <<RecC, RecD>>, crlf |-> FALSE, terminated |-> t] : t \in BOOLEAN}

\* SpecFields: one record, each of the five delta fields absent, empty or set
\* to a value of its own; the keys are written in the reverse of the order in
\* which the code consults them.
DeltaValue == [content |-> "a", text |-> "b", delta |-> "c", chunk |-> "d",
               message |-> "e"]

WrittenOrder == <<"message", "chunk", "delta", "text", "content">>

FieldChoices == [DOMAIN DeltaValue -> {"absent", "empty", "value"}]

RecordLine(f) ==
    <<"{">>
    \o Flatten([i \in 1..Len(WrittenOrder) |->
          LET k == WrittenOrder[i] IN
          IF f[k] = "absent" THEN <<>>
          ELSE IF f[k] = "empty" THEN <<k, "\"\"">>
          ELSE <<k, DeltaValue[k]>>])
    \o <<"}">>

FieldInputs ==
    {[lines |-> <<RecordLine(f)>>, crlf |-> FALSE, terminated |-> t] :
        f \in FieldChoices, t \in BOOLEAN}

HeaderText == <<"\n", "H", "\n">>
PeerHeader == <<"\n", "G", "\n">>
SuccessMessage == <<"Streaming completed">>
ErrorMessages == {"m1", "m2"}
ErrorNotice(msg) == <<"Error during streaming: ", msg>>
InitialDoc == <<"p", "\n", "q">>

(***************************************************************************)
(* State.                                                                   *)
(***************************************************************************)
VARIABLES
    input,        \* the script the server sends (never changes)
    stream,       \* its bytes
    pos,          \* bytes delivered by read() so far
    reads,        \* read() calls issued
    chunks,       \* read() calls that resolved with a chunk
    pending,      \* the decoder's held incomplete sequence
    buffer,       \* let buffer
    lines,        \* lines of the current chunk the for loop has not reached
    cur,          \* streamData of the iteration suspended in the delay
    pc,           \* "idle", "loop", "awaitRead", "delay", "returned", or
                  \* "threw": the call ended with an exception of the editor
    doc,          \* the editor's document
    cursor,       \* the editor's cursor
    scrollTo,     \* line last scrolled into view, -1 if none
    log,          \* editor, reader and Notice calls in call order
    lockHeld,     \* the reader's lock
    linesSeen,    \* iterations of the for loop started
    sentinelSeen, \* a [DONE] line went through the loop
    doneSeen,     \* a record with done: true was handled
    outcome,      \* "none", "done", "exhausted", "error"
    failure,      \* message of the rejected read(), "" if none
    peer,         \* a second invocation on the same editor: its own locals
    summarize,    \* a call of SummarizeOperation.execute: arguments, position, effects
    uiState,      \* the UIStateService, its listeners' events and the compose modal
    configService \* the ConfigService, the vault's watcher registry and the console

vars == <<input, stream, pos, reads, chunks, pending, buffer, lines, cur, pc, doc,
          cursor, scrollTo, log, lockHeld, linesSeen, sentinelSeen, doneSeen,
          outcome, failure, peer, summarize, uiState, configService>>

\* The objects of the plugin other than the streaming consumer and its editor.
plugin == <<summarize, uiState, configService>>

Ev(op, text) == [op |-> op, text |-> text]

RECURSIVE Texts(_, _)
Texts(l, op) ==
    IF l = <<>> THEN <<>>
    ELSE (IF Head(l).op = op THEN <<Head(l).text>> ELSE <<>>) \o Texts(Tail(l), op)

appends == Texts(log, "replaceRange")
notices == Texts(log, "Notice")
releases == Len(Texts(log, "releaseLock"))

IsTrue(x) == x.t = "bool" /\ x.v = <<"true">>

\* The locals of the second invocation; pc = "absent": it is never started.
PeerLocals(bytes, at) ==
    [stream |-> bytes, pos |-> 0, reads |-> 0, chunks |-> 0, pending |-> <<>>,
     buffer |-> <<>>, lines |-> <<>>, cur |-> NoFields, pc |-> at, log |-> <<>>,
     lockHeld |-> FALSE, outcome |-> "none"]

NoPeer == PeerLocals(<<>>, "absent")

\* Not part of a run of the streaming consumer alone.
NoCall == [pc |-> "absent"]
NoUI == [pc |-> "absent"]
NoConfigService == [pc |-> "absent"]

InitWith(inputs) ==
    /\ input \in inputs
    /\ stream = encode(ResponseText(input))
    /\ pos = 0
    /\ reads = 0
    /\ chunks = 0
    /\ pending = <<>>
    /\ buffer = <<>>
    /\ lines = <<>>
    /\ cur = NoFields
    /\ pc = "idle"
    /\ doc = InitialDoc
    /\ cursor = [line |-> 0, ch |-> 0]
    /\ scrollTo = -1
    /\ log = <<>>
    /\ lockHeld = FALSE
    /\ linesSeen = 0
    /\ sentinelSeen = FALSE
    /\ doneSeen = FALSE
    /\ outcome = "none"
    /\ failure = ""
    /\ peer = NoPeer
    /\ summarize = NoCall
    /\ uiState = NoUI
    /\ configService = NoConfigService

Init == InitWith(InputsOver(Catalogue))

InitFaults == InitWith(InputsOver(FaultCatalogue))

InitFraming == InitWith(InputsOver(FramingCatalogue))

InitFields == InitWith(FieldInputs)

InitEnvelope == InitWith(InputsOver(EnvelopeCatalogue))

InitSinkThrows == InitWith(InputsOver(SinkCatalogue))

InitLayout == InitWith(InputsOver(LayoutCatalogue))

InitDoneFlag == InitWith(InputsOver(DoneFlagCatalogue))

InitNoPayload == InitWith(NoPayloadInputs)

InitPair ==
    /\ input \in PairInputs
    /\ stream = encode(ResponseText(input))
    /\ pos = 0
    /\ reads = 0
    /\ chunks = 0
    /\ pending = <<>>
    /\ buffer = <<>>
    /\ lines = <<>>
    /\ cur = NoFields
    /\ pc = "idle"
    /\ doc = InitialDoc
    /\ cursor = [line |-> 0, ch |-> 0]
    /\ scrollTo = -1
    /\ log = <<>>
    /\ lockHeld = FALSE
    /\ linesSeen = 0
    /\ sentinelSeen = FALSE
    /\ doneSeen = FALSE
    /\ outcome = "none"
    /\ failure = ""
    /\ peer \in {PeerLocals(encode(ResponseText(in)), "idle") : in \in PeerInputs}
    /\ summarize = NoCall
    /\ uiState = NoUI
    /\ configService = NoConfigService

InitTruncated ==
    /\ input \in TruncatedInputs
    /\ stream = Wire(input)
    /\ pos = 0
    /\ reads = 0
    /\ chunks = 0
    /\ pending = <<>>
    /\ buffer = <<>>
    /\ lines = <<>>
    /\ cur = NoFields
    /\ pc = "idle"
    /\ doc = InitialDoc
    /\ cursor = [line |-> 0, ch |-> 0]
    /\ scrollTo = -1
    /\ log = <<>>
    /\ lockHeld = FALSE
    /\ linesSeen = 0
    /\ sentinelSeen = FALSE
    /\ doneSeen = FALSE
    /\ outcome = "none"
    /\ failure = ""
    /\ peer = NoPeer
    /\ summarize = NoCall
    /\ uiState = NoUI
    /\ configService = NoConfigService

(***************************************************************************)
(* The for loop from the given lines up to its next suspension: the delay   *)
(* before a delta is applied ("delay"), the return on a done record         *)
(* ("return"), or the end of the lines ("end").                             *)
(***************************************************************************)
\* Drain with the [DONE] marker ending the invocation as a done record does.
RECURSIVE DrainHaltsAtSentinel(_, _, _)
DrainHaltsAtSentinel(ls, seen, sent) ==
    IF ls = <<>>
    THEN [kind |-> "end", rest |-> <<>>, data |-> NoFields, seen |-> seen,
          sent |-> sent, done |-> FALSE]
    ELSE LET r == LineStep(Head(ls)) IN
         IF r.tag = "record" /\ Truthy(ContentOf(r.data))
         THEN [kind |-> "delay", rest |-> Tail(ls), data |-> r.data,
               seen |-> seen + 1, sent |-> sent, done |-> FALSE]
         ELSE IF r.tag = "sentinel" \/ (r.tag = "record" /\ Truthy(r.data["done"]))
         THEN [kind |-> "return", rest |-> Tail(ls), data |-> r.data,
               seen |-> seen + 1, sent |-> (sent \/ r.tag = "sentinel"),
               done |-> IsTrue(r.data["done"])]
         ELSE DrainHaltsAtSentinel(Tail(ls), seen + 1, sent)

\* Drain without the test of the done flag after a record without content.
RECURSIVE DrainIgnoresDone(_, _, _)
DrainIgnoresDone(ls, seen, sent) ==
    IF ls = <<>>
    THEN [kind |-> "end", rest |-> <<>>, data |-> NoFields, seen |-> seen,
          sent |-> sent, done |-> FALSE]
    ELSE LET r == LineStep(Head(ls)) IN
         IF r.tag = "record" /\ Truthy(ContentOf(r.data))
         THEN [kind |-> "delay", rest |-> Tail(ls), data |-> r.data,
               seen |-> seen + 1, sent |-> sent, done |-> FALSE]
         ELSE LET d == DrainIgnoresDone(Tail(ls), seen + 1, sent \/ r.tag = "sentinel")
              IN  [d EXCEPT !.done = @ \/ (r.tag = "record" /\ IsTrue(r.data["done"]))]

\* Drain with a line that does not parse ending the loop over the chunk.
RECURSIVE DrainAbortsOnFault(_, _, _)
DrainAbortsOnFault(ls, seen, sent) ==
    IF ls = <<>>
    THEN [kind |-> "end", rest |-> <<>>, data |-> NoFields, seen |-> seen,
          sent |-> sent, done |-> FALSE]
    ELSE LET r == LineStep(Head(ls)) IN
         IF r.tag = "record" /\ Truthy(ContentOf(r.data))
         THEN [kind |-> "delay", rest |-> Tail(ls), data |-> r.data,
               seen |-> seen + 1, sent |-> sent, done |-> FALSE]
         ELSE IF r.tag = "record" /\ Truthy(r.data["done"])
         THEN [kind |-> "return", rest |-> Tail(ls), data |-> r.data,
               seen |-> seen + 1, sent |-> sent, done |-> IsTrue(r.data["done"])]
         ELSE IF r.tag = "parseError"
         THEN [kind |-> "end", rest |-> <<>>, data |-> NoFields, seen |-> seen + 1,
               sent |-> sent, done |-> FALSE]
         ELSE DrainAbortsOnFault(Tail(ls), seen + 1, sent \/ r.tag = "sentinel")

RECURSIVE Drain(_, _, _)
Drain(ls, seen, sent) ==
    IF ls = <<>>
    THEN [kind |-> "end", rest |-> <<>>, data |-> NoFields, seen |-> seen,
          sent |-> sent, done |-> FALSE]
    ELSE LET r == LineStep(Head(ls)) IN
         IF r.tag = "record" /\ Truthy(ContentOf(r.data))
         THEN [kind |-> "delay", rest |-> Tail(ls), data |-> r.data,
               seen |-> seen + 1, sent |-> sent, done |-> FALSE]
         ELSE IF r.tag = "record" /\ Truthy(r.data["done"])
         THEN [kind |-> "return", rest |-> Tail(ls), data |-> r.data,
               seen |-> seen + 1, sent |-> sent, done |-> IsTrue(r.data["done"])]
         ELSE Drain(Tail(ls), seen + 1, sent \/ r.tag = "sentinel")

\* The return on a done record with the release left out.
ReturnOnDoneNoRelease(l) == l \o <<Ev("Notice", SuccessMessage)>>

\* return inside try: new Notice(successMessage), then the finally block.
ReturnOnDone(l) ==
    l \o <<Ev("Notice", SuccessMessage), Ev("releaseLock", <<>>)>>

AfterDrain(d, seenDone, l) ==
    /\ linesSeen' = d.seen
    /\ sentinelSeen' = d.sent
    /\ doneSeen' = (seenDone \/ d.done)
    /\ lines' = d.rest
    /\ cur' = d.data
    /\ IF d.kind = "return"
       THEN /\ pc' = "returned"
            /\ log' = ReturnOnDone(l)
            /\ lockHeld' = FALSE
            /\ outcome' = "done"
       ELSE /\ pc' = (IF d.kind = "delay" THEN "delay" ELSE "loop")
            /\ log' = l
            /\ UNCHANGED <<lockHeld, outcome>>

\* Invoke without the header.
InvokeWithoutHeader ==
    /\ pc = "idle"
    /\ pc' = "loop"
    /\ lockHeld' = TRUE
    /\ log' = log \o <<Ev("getReader", <<>>)>>
    /\ UNCHANGED <<plugin, input, stream, peer, chunks, pos, reads, pending, buffer, lines, cur, doc,
                   cursor, scrollTo, linesSeen, sentinelSeen, doneSeen, outcome,
                   failure>>

(***************************************************************************)
(* Lines 303-310: getReader, new TextDecoder, appendToEndOfDocument.        *)
(***************************************************************************)
Invoke ==
    /\ pc = "idle"
    /\ pc' = "loop"
    /\ lockHeld' = TRUE
    /\ cursor' = EndOf(doc)
    /\ doc' = replaceRange(doc, HeaderText, EndOf(doc))
    /\ log' = log \o <<Ev("getReader", <<>>), Ev("setCursor", <<>>),
                       Ev("replaceRange", HeaderText)>>
    /\ UNCHANGED <<plugin, input, stream, peer, chunks, pos, reads, pending, buffer, lines, cur,
                   scrollTo, linesSeen, sentinelSeen, doneSeen, outcome, failure>>

\* IssueRead with a second read() issued in the same iteration.
IssueReadTwice ==
    /\ pc = "loop"
    /\ pc' = "awaitRead"
    /\ reads' = reads + 2
    /\ UNCHANGED <<plugin, input, stream, peer, chunks, pos, pending, buffer, lines, cur, doc, cursor,
                   scrollTo, log, lockHeld, linesSeen, sentinelSeen, doneSeen,
                   outcome, failure>>

(***************************************************************************)
(* Line 314: reader.read() is called and awaited.                           *)
(***************************************************************************)
IssueRead ==
    /\ pc = "loop"
    /\ pc' = "awaitRead"
    /\ reads' = reads + 1
    /\ UNCHANGED <<plugin, input, stream, peer, chunks, pos, pending, buffer, lines, cur, doc, cursor,
                   scrollTo, log, lockHeld, linesSeen, sentinelSeen, doneSeen,
                   outcome, failure>>

\* ReadChunk with the chunk split on its own, the kept remainder left out.
ReadChunkDropsBuffer ==
    /\ pc = "awaitRead"
    /\ pos < Len(stream)
    /\ reads <= MaxChunks
    /\ \E n \in 1..(Len(stream) - pos) :
        /\ reads = MaxChunks => n = Len(stream) - pos
        /\ LET dec == decode(pending, SubSeq(stream, pos + 1, pos + n))
               segs == split(dec.text)
           IN  /\ pos' = pos + n
               /\ pending' = dec.pending
               /\ buffer' = Last(segs)
               /\ AfterDrain(Drain(Front(segs), linesSeen, sentinelSeen), doneSeen, log)
    /\ chunks' = chunks + 1
    /\ UNCHANGED <<plugin, input, stream, peer, reads, doc, cursor, scrollTo, failure>>

(***************************************************************************)
(* read() resolves with a chunk of n bytes: lines 319-325, then the for     *)
(* loop up to its next suspension.                                          *)
(***************************************************************************)
ReadChunk ==
    /\ pc = "awaitRead"
    /\ pos < Len(stream)
    /\ reads <= MaxChunks
    /\ \E n \in 1..(Len(stream) - pos) :
        /\ reads = MaxChunks => n = Len(stream) - pos
        /\ LET dec == decode(pending, SubSeq(stream, pos + 1, pos + n))
               segs == split(buffer \o dec.text)
           IN  /\ pos' = pos + n
               /\ pending' = dec.pending
               /\ buffer' = Last(segs)
               /\ AfterDrain(Drain(Front(segs), linesSeen, sentinelSeen), doneSeen, log)
    /\ chunks' = chunks + 1
    /\ UNCHANGED <<plugin, input, stream, peer, reads, doc, cursor, scrollTo, failure>>

(***************************************************************************)
(* Lines 360-379: the delay has elapsed; the delta is applied, the cursor   *)
(* moved and scrolled into view, then the done flag is tested and the loop  *)
(* goes on to its next suspension.                                          *)
(***************************************************************************)
ApplyDelta ==
    /\ pc = "delay"
    /\ LET content == ContentOf(cur).v
           newDoc == replaceRange(doc, content, EndOf(doc))
           l == log \o <<Ev("replaceRange", content), Ev("setCursor", <<>>),
                         Ev("scrollIntoView", <<>>)>>
       IN  /\ doc' = newDoc
           /\ cursor' = EndOf(newDoc)
           /\ scrollTo' = lastLine(newDoc)
           /\ IF Truthy(cur["done"])
              THEN /\ pc' = "returned"
                   /\ log' = ReturnOnDone(l)
                   /\ lockHeld' = FALSE
                   /\ doneSeen' = (doneSeen \/ IsTrue(cur["done"]))
                   /\ outcome' = "done"
                   /\ UNCHANGED <<lines, cur, linesSeen, sentinelSeen>>
              ELSE AfterDrain(Drain(lines, linesSeen, sentinelSeen),
                              doneSeen \/ IsTrue(cur["done"]), l)
    /\ UNCHANGED <<plugin, input, stream, peer, chunks, pos, reads, pending, buffer, failure>>

\* ReadDone with the success notice emitted before the remainder block.
ReadDoneNoticeFirst ==
    /\ pc = "awaitRead"
    /\ pos = Len(stream)
    /\ LET r == RemainderStep(buffer)
           applies == r.tag = "record" /\ Truthy(ContentOf(r.data))
           content == ContentOf(r.data).v
       IN  /\ doc' = (IF applies THEN replaceRange(doc, content, EndOf(doc)) ELSE doc)
           /\ log' = log \o <<Ev("Notice", SuccessMessage)>>
                         \o (IF applies THEN <<Ev("replaceRange", content)>> ELSE <<>>)
                         \o <<Ev("releaseLock", <<>>)>>
           /\ doneSeen' = (doneSeen \/ (r.tag = "record" /\ IsTrue(r.data["done"])))
    /\ pc' = "returned"
    /\ lockHeld' = FALSE
    /\ outcome' = "exhausted"
    /\ UNCHANGED <<plugin, input, stream, peer, chunks, pos, reads, pending, buffer, lines, cur, cursor,
                   scrollTo, linesSeen, sentinelSeen, failure>>

\* ReadDone without the statement after the try statement.
ReadDoneSilent ==
    /\ pc = "awaitRead"
    /\ pos = Len(stream)
    /\ LET r == RemainderStep(buffer)
           applies == r.tag = "record" /\ Truthy(ContentOf(r.data))
           content == ContentOf(r.data).v
       IN  /\ doc' = (IF applies THEN replaceRange(doc, content, EndOf(doc)) ELSE doc)
           /\ log' = log \o (IF applies THEN <<Ev("replaceRange", content)>> ELSE <<>>)
                         \o <<Ev("releaseLock", <<>>)>>
           /\ doneSeen' = (doneSeen \/ (r.tag = "record" /\ IsTrue(r.data["done"])))
    /\ pc' = "returned"
    /\ lockHeld' = FALSE
    /\ outcome' = "exhausted"
    /\ UNCHANGED <<plugin, input, stream, peer, chunks, pos, reads, pending, buffer, lines, cur, cursor,
                   scrollTo, linesSeen, sentinelSeen, failure>>

(***************************************************************************)
(* read() resolves with done: break, the remainder block (lines 387-407),   *)
(* the finally block, then line 414.                                        *)
(***************************************************************************)
ReadDone ==
    /\ pc = "awaitRead"
    /\ pos = Len(stream)
    /\ LET r == RemainderStep(buffer)
           applies == r.tag = "record" /\ Truthy(ContentOf(r.data))
           content == ContentOf(r.data).v
       IN  /\ doc' = (IF applies THEN replaceRange(doc, content, EndOf(doc)) ELSE doc)
           /\ log' = log \o (IF applies THEN <<Ev("replaceRange", content)>> ELSE <<>>)
                         \o <<Ev("releaseLock", <<>>), Ev("Notice", SuccessMessage)>>
           /\ doneSeen' = (doneSeen \/ (r.tag = "record" /\ IsTrue(r.data["done"])))
    /\ pc' = "returned"
    /\ lockHeld' = FALSE
    /\ outcome' = "exhausted"
    /\ UNCHANGED <<plugin, input, stream, peer, chunks, pos, reads, pending, buffer, lines, cur, cursor,
                   scrollTo, linesSeen, sentinelSeen, failure>>

\* ReadReject with the remainder block run before the catch block.
ReadRejectFlushes ==
    /\ pc = "awaitRead"
    /\ \E msg \in ErrorMessages :
        LET r == RemainderStep(buffer)
            applies == r.tag = "record" /\ Truthy(ContentOf(r.data))
            content == ContentOf(r.data).v
        IN  /\ failure' = msg
            /\ doc' = (IF applies THEN replaceRange(doc, content, EndOf(doc)) ELSE doc)
            /\ log' = log \o (IF applies THEN <<Ev("replaceRange", content)>> ELSE <<>>)
                          \o <<Ev("Notice", ErrorNotice(msg)), Ev("releaseLock", <<>>),
                               Ev("Notice", SuccessMessage)>>
    /\ pc' = "returned"
    /\ lockHeld' = FALSE
    /\ outcome' = "error"
    /\ UNCHANGED <<plugin, input, stream, peer, chunks, pos, reads, pending, buffer, lines, cur,
                   cursor, scrollTo, linesSeen, sentinelSeen, doneSeen>>

(***************************************************************************)
(* read() rejects: the catch block (line 409), the finally block (line      *)
(* 411), and then the statement after the try statement (line 414).         *)
(***************************************************************************)
ReadReject ==
    /\ pc = "awaitRead"
    /\ \E msg \in ErrorMessages :
        /\ failure' = msg
        /\ log' = log \o <<Ev("Notice", ErrorNotice(msg)), Ev("releaseLock", <<>>),
                           Ev("Notice", SuccessMessage)>>
    /\ pc' = "returned"
    /\ lockHeld' = FALSE
    /\ outcome' = "error"
    /\ UNCHANGED <<plugin, input, stream, peer, chunks, pos, reads, pending, buffer, lines, cur, doc,
                   cursor, scrollTo, linesSeen, sentinelSeen, doneSeen>>

(***************************************************************************)
(* The editor throws.  In appendToEndOfDocument (line 307, before the try   *)
(* statement of line 312) the exception leaves handleStreamingResponse:     *)
(* neither the catch block nor the finally block belongs to it.  at is the  *)
(* editor call that throws; the calls before it have taken effect.          *)
(***************************************************************************)
EditorCalls == {"lastLine", "getLine", "setCursor", "replaceRange"}

HeaderThrows ==
    /\ pc = "idle"
    /\ pc' = "threw"
    /\ lockHeld' = TRUE
    /\ \E at \in EditorCalls :
        /\ cursor' = (IF at = "replaceRange" THEN EndOf(doc) ELSE cursor)
        /\ log' = log \o <<Ev("getReader", <<>>)>>
                       \o (IF at = "replaceRange" THEN <<Ev("setCursor", <<>>)>> ELSE <<>>)
    /\ UNCHANGED <<plugin, input, stream, peer, chunks, pos, reads, pending, buffer, lines, cur, doc,
                   scrollTo, linesSeen, sentinelSeen, doneSeen, outcome, failure>>

\* DeltaThrows with the exception reaching the catch block of line 408.
DeltaThrowsEscalates ==
    /\ pc = "delay"
    /\ \E at \in {"lastLine", "replaceRange", "setCursor", "scrollIntoView"} :
        LET content == ContentOf(cur).v
            newDoc == replaceRange(doc, content, EndOf(doc))
            applied == at \in {"setCursor", "scrollIntoView"}
            l == log \o (IF applied THEN <<Ev("replaceRange", content)>> ELSE <<>>)
                     \o (IF at = "scrollIntoView" THEN <<Ev("setCursor", <<>>)>> ELSE <<>>)
        IN  /\ doc' = (IF applied THEN newDoc ELSE doc)
            /\ cursor' = (IF at = "scrollIntoView" THEN EndOf(newDoc) ELSE cursor)
            /\ log' = l \o <<Ev("Notice", ErrorNotice("m1")), Ev("releaseLock", <<>>),
                             Ev("Notice", SuccessMessage)>>
    /\ failure' = "m1"
    /\ pc' = "returned"
    /\ lockHeld' = FALSE
    /\ outcome' = "error"
    /\ UNCHANGED <<plugin, input, stream, peer, chunks, pos, reads, pending, buffer, lines, cur,
                   scrollTo, linesSeen, sentinelSeen, doneSeen>>

(***************************************************************************)
(* The editor throws while a delta is applied (lines 363-373): the catch    *)
(* of line 380 takes it, the done test of line 376 is not reached, and the  *)
(* for loop goes on with the next line.                                     *)
(***************************************************************************)
DeltaCalls == {"lastLine", "replaceRange", "setCursor", "scrollIntoView"}

DeltaThrows ==
    /\ pc = "delay"
    /\ \E at \in DeltaCalls :
        LET content == ContentOf(cur).v
            newDoc == replaceRange(doc, content, EndOf(doc))
            applied == at \in {"setCursor", "scrollIntoView"}
            l == log \o (IF applied THEN <<Ev("replaceRange", content)>> ELSE <<>>)
                     \o (IF at = "scrollIntoView" THEN <<Ev("setCursor", <<>>)>> ELSE <<>>)
        IN  /\ doc' = (IF applied THEN newDoc ELSE doc)
            /\ cursor' = (IF at = "scrollIntoView" THEN EndOf(newDoc) ELSE cursor)
            /\ AfterDrain(Drain(lines, linesSeen, sentinelSeen), doneSeen, l)
    /\ UNCHANGED <<plugin, input, stream, peer, chunks, pos, reads, pending, buffer, scrollTo,
                   failure>>

(***************************************************************************)
(* The editor throws while the remainder is applied (lines 397-400): the    *)
(* catch of line 403 takes it, then the finally block and line 414 follow.  *)
(***************************************************************************)
RemainderThrows ==
    /\ pc = "awaitRead"
    /\ pos = Len(stream)
    /\ LET r == RemainderStep(buffer)
       IN  /\ r.tag = "record"
           /\ Truthy(ContentOf(r.data))
    /\ log' = log \o <<Ev("releaseLock", <<>>), Ev("Notice", SuccessMessage)>>
    /\ pc' = "returned"
    /\ lockHeld' = FALSE
    /\ outcome' = "exhausted"
    /\ UNCHANGED <<plugin, input, stream, peer, chunks, pos, reads, pending, buffer, lines, cur, doc,
                   cursor, scrollTo, linesSeen, sentinelSeen, doneSeen, failure>>

(***************************************************************************)
(* A second invocation of handleStreamingResponse on the same editor.  Its  *)
(* reader, decoder, buffer and loop position are the locals of its own      *)
(* call (lines 303-310), held in peer; the editor (doc, cursor, scrollTo)   *)
(* is the one object both calls were given.  Its steps are those of the     *)
(* first invocation, and like them each runs from one await to the next.    *)
(* Its body arrives in at most two chunks.                                  *)
(***************************************************************************)
own == <<input, stream, pos, reads, chunks, pending, buffer, lines, cur, pc, log,
         lockHeld, linesSeen, sentinelSeen, doneSeen, outcome, failure>>

PeerAfter(p, d, l) ==
    IF d.kind = "return"
    THEN [p EXCEPT !.lines = d.rest, !.cur = d.data, !.pc = "returned",
                   !.log = ReturnOnDone(l), !.lockHeld = FALSE, !.outcome = "done"]
    ELSE [p EXCEPT !.lines = d.rest, !.cur = d.data, !.log = l,
                   !.pc = IF d.kind = "delay" THEN "delay" ELSE "loop"]

PeerInvoke ==
    /\ peer.pc = "idle"
    /\ peer' = [peer EXCEPT !.pc = "loop", !.lockHeld = TRUE,
                            !.log = @ \o <<Ev("getReader", <<>>), Ev("setCursor", <<>>),
                                           Ev("replaceRange", PeerHeader)>>]
    /\ cursor' = EndOf(doc)
    /\ doc' = replaceRange(doc, PeerHeader, EndOf(doc))
    /\ UNCHANGED <<plugin, own, scrollTo>>

PeerIssueRead ==
    /\ peer.pc = "loop"
    /\ peer' = [peer EXCEPT !.pc = "awaitRead", !.reads = @ + 1]
    /\ UNCHANGED <<plugin, own, doc, cursor, scrollTo>>

\* PeerReadChunk with the chunk added to the buffer of the first invocation.
PeerReadChunkSharedBuffer ==
    /\ peer.pc = "awaitRead"
    /\ peer.pos < Len(peer.stream)
    /\ \E n \in 1..(Len(peer.stream) - peer.pos) :
        /\ peer.chunks >= 1 => n = Len(peer.stream) - peer.pos
        /\ LET dec == decode(peer.pending, SubSeq(peer.stream, peer.pos + 1, peer.pos + n))
               segs == split(buffer \o dec.text)
               p == [peer EXCEPT !.pos = @ + n, !.chunks = @ + 1,
                                 !.pending = dec.pending]
           IN  /\ peer' = PeerAfter(p, Drain(Front(segs), 0, FALSE), peer.log)
               /\ buffer' = Last(segs)
    /\ UNCHANGED <<plugin, input, stream, pos, reads, chunks, pending, lines, cur, pc, log,
                   lockHeld, linesSeen, sentinelSeen, doneSeen, outcome, failure,
                   doc, cursor, scrollTo>>

PeerReadChunk ==
    /\ peer.pc = "awaitRead"
    /\ peer.pos < Len(peer.stream)
    /\ \E n \in 1..(Len(peer.stream) - peer.pos) :
        /\ peer.chunks >= 1 => n = Len(peer.stream) - peer.pos
        /\ LET dec == decode(peer.pending, SubSeq(peer.stream, peer.pos + 1, peer.pos + n))
               segs == split(peer.buffer \o dec.text)
               p == [peer EXCEPT !.pos = @ + n, !.chunks = @ + 1,
                                 !.pending = dec.pending, !.buffer = Last(segs)]
           IN  peer' = PeerAfter(p, Drain(Front(segs), 0, FALSE), peer.log)
    /\ UNCHANGED <<plugin, own, doc, cursor, scrollTo>>

PeerApplyDelta ==
    /\ peer.pc = "delay"
    /\ LET content == ContentOf(peer.cur).v
           newDoc == replaceRange(doc, content, EndOf(doc))
           l == peer.log \o <<Ev("replaceRange", content), Ev("setCursor", <<>>),
                              Ev("scrollIntoView", <<>>)>>
       IN  /\ doc' = newDoc
           /\ cursor' = EndOf(newDoc)
           /\ scrollTo' = lastLine(newDoc)
           /\ peer' = IF Truthy(peer.cur["done"])
                      THEN [peer EXCEPT !.pc = "returned", !.log = ReturnOnDone(l),
                                        !.lockHeld = FALSE, !.outcome = "done"]
                      ELSE PeerAfter(peer, Drain(peer.lines, 0, FALSE), l)
    /\ UNCHANGED <<plugin, own>>

PeerReadDone ==
    /\ peer.pc = "awaitRead"
    /\ peer.pos = Len(peer.stream)
    /\ LET r == RemainderStep(peer.buffer)
           applies == r.tag = "record" /\ Truthy(ContentOf(r.data))
           content == ContentOf(r.data).v
       IN  /\ doc' = (IF applies THEN replaceRange(doc, content, EndOf(doc)) ELSE doc)
           /\ peer' = [peer EXCEPT
                  !.pc = "returned", !.lockHeld = FALSE, !.outcome = "exhausted",
                  !.log = @ \o (IF applies THEN <<Ev("replaceRange", content)>> ELSE <<>>)
                            \o <<Ev("releaseLock", <<>>), Ev("Notice", SuccessMessage)>>]
    /\ UNCHANGED <<plugin, own, cursor, scrollTo>>

PeerReadReject ==
    /\ peer.pc = "awaitRead"
    /\ \E msg \in ErrorMessages :
        peer' = [peer EXCEPT
            !.pc = "returned", !.lockHeld = FALSE, !.outcome = "error",
            !.log = @ \o <<Ev("Notice", ErrorNotice(msg)), Ev("releaseLock", <<>>),
                           Ev("Notice", SuccessMessage)>>]
    /\ UNCHANGED <<plugin, own, doc, cursor, scrollTo>>

Next ==
    \/ Invoke
    \/ IssueRead
    \/ ReadChunk
    \/ ApplyDelta
    \/ ReadDone
    \/ ReadReject

Spec == Init /\ [][Next]_vars

SpecFaults == InitFaults /\ [][Next]_vars

SpecFraming == InitFraming /\ [][Next]_vars

SpecFields == InitFields /\ [][Next]_vars

SpecEnvelope == InitEnvelope /\ [][Next]_vars

NextSinkThrows ==
    \/ Next
    \/ HeaderThrows
    \/ DeltaThrows
    \/ RemainderThrows

SpecSinkThrows == InitSinkThrows /\ [][NextSinkThrows]_vars

(***************************************************************************)
(* Scheduling.  The code between two awaits runs to its end (Invoke,        *)
(* IssueRead), and every await is resumed: a pending read() settles, with   *)
(* a chunk, with done or with a rejection (ReadSettles), and the timer of   *)
(* the delay fires (TimerFires).  The two resumptions are stated by what    *)
(* they do to the control state: under Next the only steps that leave       *)
(* "awaitRead" are ReadChunk, ReadDone and ReadReject, and the only step    *)
(* from "delay" is ApplyDelta, which leaves "delay" or suspends again at a  *)
(* later line.                                                              *)
(***************************************************************************)
InitLive == InitWith(InputsOver(SinkCatalogue))

ctl == <<pc, linesSeen>>

ReadSettles ==
    /\ pc = "awaitRead"
    /\ pc' \in {"loop", "delay", "returned"}
    /\ linesSeen' \in linesSeen..MaxLines

TimerFires ==
    /\ pc = "delay"
    /\ pc' \in {"loop", "delay", "returned"}
    /\ linesSeen' \in linesSeen..MaxLines

Fairness ==
    /\ WF_vars(Invoke)
    /\ WF_vars(IssueRead)
    /\ WF_ctl(ReadSettles)
    /\ WF_ctl(TimerFires)

SpecLive == InitLive /\ [][Next]_vars /\ Fairness

SpecLayout == InitLayout /\ [][Next]_vars

SpecDoneFlag == InitDoneFlag /\ [][Next]_vars

SpecNoPayload == InitNoPayload /\ [][Next]_vars

SpecTruncated == InitTruncated /\ [][Next]_vars

NextPair ==
    \/ Next
    \/ PeerInvoke
    \/ PeerIssueRead
    \/ PeerReadChunk
    \/ PeerApplyDelta
    \/ PeerReadDone
    \/ PeerReadReject

SpecPair == InitPair /\ [][NextPair]_vars

TypeOK ==
    /\ pc \in {"idle", "loop", "awaitRead", "delay", "returned", "threw"}
    /\ pos \in 0..Len(stream)
    /\ outcome \in {"none", "done", "exhausted", "error"}
    /\ lockHeld \in BOOLEAN


(***************************************************************************)
(* Reference computations over a whole response, used by the properties.    *)
(***************************************************************************)
\* The for loop run to its end over the given lines, collecting the deltas.
RECURSIVE RunLines(_, _)
RunLines(ls, acc) ==
    IF ls = <<>> THEN [deltas |-> acc, returned |-> FALSE]
    ELSE LET r == LineStep(Head(ls))
             c == ContentOf(r.data)
             acc2 == IF r.tag = "record" /\ Truthy(c) THEN Append(acc, c.v) ELSE acc
         IN  IF r.tag = "record" /\ Truthy(r.data["done"])
             THEN [deltas |-> acc2, returned |-> TRUE]
             ELSE RunLines(Tail(ls), acc2)

RemainderDelta(buf) ==
    LET r == RemainderStep(buf) IN
    IF r.tag = "record" /\ Truthy(ContentOf(r.data))
    THEN <<ContentOf(r.data).v>> ELSE <<>>

\* The deltas applied when the whole response arrives as one chunk and the
\* reader then reports exhaustion.
OneChunkDeltas(bytes) ==
    LET segs == split(DecodeFrom(<<>>, bytes, <<>>).text)
        run == RunLines(Front(segs), <<>>)
    IN  IF run.returned THEN run.deltas
        ELSE run.deltas \o RemainderDelta(Last(segs))

\* The deltas of all the records of the response, in stream order.
RECURSIVE LineDeltas(_)
LineDeltas(ls) ==
    IF ls = <<>> THEN <<>>
    ELSE LET r == LineStep(Head(ls)) IN
         (IF r.tag = "record" /\ Truthy(ContentOf(r.data))
          THEN <<ContentOf(r.data).v>> ELSE <<>>) \o LineDeltas(Tail(ls))

AllDeltas(bytes) ==
    LET segs == split(DecodeFrom(<<>>, bytes, <<>>).text) IN
    LineDeltas(Front(segs)) \o RemainderDelta(Last(segs))

\* The input with the lines of the given set taken out, terminators included.
RECURSIVE Filter(_, _)
Filter(ls, drop) ==
    IF ls = <<>> THEN <<>>
    ELSE (IF Head(ls) \in drop THEN <<>> ELSE <<Head(ls)>>) \o Filter(Tail(ls), drop)

Without(in, drop) ==
    [lines |-> Filter(in.lines, drop),
     crlf |-> in.crlf,
     terminated |-> in.terminated
                    \/ (in.lines # <<>> /\ Last(in.lines) \in drop)]

Finished == outcome \in {"done", "exhausted"}

(***************************************************************************)
(* C1.  Every invocation ends with exactly one terminal notification: the   *)
(* success message or "Error during streaming: <detail>", never both and    *)
(* never neither.                                                           *)
(***************************************************************************)
C1_OneTerminalNotice ==
    pc = "returned" =>
        \/ notices = <<SuccessMessage>>
        \/ notices = <<<<"Error during streaming: ", failure>>>>

(***************************************************************************)
(* C2 as stated.  Once a [DONE] line has been processed the invocation is   *)
(* finalized with success: nothing is read, classified or applied after it. *)
(***************************************************************************)
FirstIn(ls, set) ==
    IF \E i \in 1..Len(ls) : ls[i] \in set
    THEN CHOOSE i \in 1..Len(ls) : ls[i] \in set /\ \A j \in 1..(i - 1) : ls[j] \notin set
    ELSE 0

C3_DoneShortCircuit ==
    doneSeen =>
        LET i == FirstIn(input.lines, DoneLines)
            inRemainder == i = Len(input.lines) /\ ~input.terminated
        IN  /\ pc = "returned"
            /\ notices = <<SuccessMessage>>
            /\ i > 0
            /\ linesSeen = (IF inRemainder THEN i - 1 ELSE i)
            /\ outcome = (IF inRemainder THEN "exhausted" ELSE "done")
            /\ Tail(appends) =
                 AllDeltas(encode(ResponseText(
                     [input EXCEPT !.lines = SubSeq(input.lines, 1, i)])))

C3_Witness ==
    /\ doneSeen
    /\ outcome = "done"
    /\ linesSeen < Len(input.lines)
    /\ pos = Len(stream)
    /\ Len(appends) = 2

(***************************************************************************)
(* C4.  releaseLock is invoked exactly once per invocation, on each of the  *)
(* three terminal paths, and not before.                                    *)
(***************************************************************************)
C4_ReleasedOnce ==
    /\ pc = "returned" => (releases = 1 /\ ~lockHeld)
    /\ pc \in {"loop", "awaitRead", "delay"} => (releases = 0 /\ lockHeld)
    /\ pc = "returned" <=> outcome \in {"done", "exhausted", "error"}

C4_Witness == outcome = "done" /\ releases = 1 /\ Len(appends) = 1

(***************************************************************************)
(* C5.  Chunking invariance: however the bytes of a response are split into *)
(* chunks, the appends, the document and the terminal notification are      *)
(* those of the response delivered as one chunk.                            *)
(***************************************************************************)
C5_ChunkingInvariance ==
    Finished =>
        LET whole == OneChunkDeltas(stream) IN
        /\ appends = <<HeaderText>> \o whole
        /\ doc = InitialDoc \o HeaderText \o Flatten(whole)
        /\ notices = <<SuccessMessage>>

C5_Witness ==
    /\ outcome = "exhausted"
    /\ reads = 4
    /\ input.crlf
    /\ \E i \in 1..Len(appends) : appends[i] = <<"U+00E9">>
    /\ Len(appends) = 4

(***************************************************************************)
(* C6.  Order preservation: at every moment the sink has received the       *)
(* header followed by the deltas of a prefix of the response's              *)
(* delta-bearing records, in stream order, each once, whatever the outcome. *)
(***************************************************************************)
C6_OrderPreserved ==
    pc # "idle" =>
        LET applied == appends IN
        /\ Len(applied) >= 1
        /\ applied[1] = HeaderText
        /\ IsPrefix(Tail(applied), AllDeltas(stream))
        /\ doc = InitialDoc \o Flatten(applied)

C6_Witness ==
    /\ pc = "delay"
    /\ Len(appends) = 3
    /\ appends[2] # appends[3]
    /\ ContentOf(cur).v # appends[3]

(***************************************************************************)
(* C7.  Fault isolation: a line that fails to parse, or a non-JSON line,    *)
(* changes nothing but itself.  The deltas applied are always a prefix of,  *)
(* and on completion equal to, those of the response without the faulty     *)
(* lines; the faulty line produces no notification and the terminal         *)
(* notification is the same.                                                *)
(***************************************************************************)
C7_FaultIsolation ==
    LET clean == OneChunkDeltas(encode(ResponseText(Without(input, FaultLines))))
        applied == appends
    IN  /\ pc # "idle" => (Len(applied) >= 1 /\ IsPrefix(Tail(applied), clean))
        /\ Finished => (Tail(applied) = clean /\ notices = <<SuccessMessage>>)
        /\ pc # "returned" => notices = <<>>

C7_Witness ==
    /\ Len(input.lines) = 3
    /\ input.lines[1] \notin FaultLines
    /\ input.lines[2] = Malformed
    /\ input.lines[3] \notin FaultLines
    /\ Len(appends) = 3
    /\ Finished

(***************************************************************************)
(* C8.  When read() rejects, the sink keeps the header and the deltas of    *)
(* the complete lines received before the failing read: nothing is rolled   *)
(* back, the buffered partial line is not applied, and the error            *)
(* notification reads "Error during streaming: " and the rejection message. *)
(***************************************************************************)
C8_RejectedRead ==
    outcome = "error" =>
        LET got == DecodeFrom(<<>>, SubSeq(stream, 1, pos), <<>>).text IN
        /\ failure \in ErrorMessages
        /\ notices[1] = <<"Error during streaming: ", failure>>
        /\ \A i \in 2..Len(notices) : notices[i][1] # "Error during streaming: "
        /\ appends = <<HeaderText>> \o RunLines(Front(split(got)), <<>>).deltas
        /\ doc = InitialDoc \o HeaderText
                 \o Flatten(RunLines(Front(split(got)), <<>>).deltas)

C8_Witness ==
    /\ outcome = "error"
    /\ reads = 3
    /\ Len(appends) = 2
    /\ RemainderDelta(buffer) # <<>>

(***************************************************************************)
(* C9.  The header text is appended exactly once, before the first read()   *)
(* is issued and before any delta, on every invocation.                     *)
(***************************************************************************)
C9_HeaderFirst ==
    /\ pc = "idle" => (appends = <<>> /\ reads = 0)
    /\ pc # "idle" =>
        LET applied == appends IN
        /\ Len(applied) >= 1
        /\ applied[1] = HeaderText
        /\ \A i \in 2..Len(applied) : applied[i] # HeaderText
        /\ IsPrefix(InitialDoc \o HeaderText, doc)

C9_Witness ==
    /\ outcome = "error"
    /\ reads = 1
    /\ appends = <<HeaderText>>


(***************************************************************************)
(* C10.  The delta applied for a record is the value of the first of        *)
(* content, text, delta, chunk, message that is present and non-empty; a    *)
(* record with none of them present and non-empty causes no append.  This   *)
(* holds for a complete line and for the final remainder.                   *)
(***************************************************************************)
Precedence == <<"content", "text", "delta", "chunk", "message">>

PresentNonEmpty(line, k) ==
    \E i \in 1..(Len(line) - 1) : line[i] = k /\ line[i + 1] # "\"\""

FirstNonEmpty(line) ==
    LET idx == {j \in 1..Len(Precedence) : PresentNonEmpty(line, Precedence[j])} IN
    IF idx = {} THEN <<>>
    ELSE LET j == CHOOSE m \in idx : \A n \in idx : m <= n
             i == CHOOSE n \in 1..(Len(line) - 1) : line[n] = Precedence[j]
         IN  <<<<line[i + 1]>>>>

C10_FieldPrecedence ==
    /\ Finished => Tail(appends) = FirstNonEmpty(input.lines[1])
    /\ pc = "delay" => <<ContentOf(cur).v>> = FirstNonEmpty(input.lines[1])

C10_Witness ==
    /\ outcome = "exhausted"
    /\ ~input.terminated
    /\ PresentNonEmpty(input.lines[1], "message")
    /\ PresentNonEmpty(input.lines[1], "delta")
    /\ \E i \in 1..(Len(input.lines[1]) - 1) :
          input.lines[1][i] = "content" /\ input.lines[1][i + 1] = "\"\""
    /\ ~PresentNonEmpty(input.lines[1], "text")
    /\ appends = <<HeaderText, <<"c">>>>


(***************************************************************************)
(* C11.  At exhaustion the remainder is treated exactly as the complete     *)
(* line of the same text would be: the deltas appended after the header     *)
(* and the terminal notification of a response are those of the same        *)
(* response with a line terminator after its last line.                     *)
(***************************************************************************)
Terminated(in) == [in EXCEPT !.terminated = TRUE]

C11_RemainderAsLine ==
    Finished =>
        /\ Tail(appends) = OneChunkDeltas(encode(ResponseText(Terminated(input))))
        /\ notices = <<SuccessMessage>>


(***************************************************************************)
(* C12.  The envelope is detected per line: 'data: J' and the bare line J   *)
(* go to the same parsed record, as a complete line and as the remainder,   *)
(* and a response that mixes the two conventions appends the same deltas    *)
(* and finishes the same way as the same records all bare or all framed.    *)
(***************************************************************************)
Bare(line) == IF startsWith(line, "data: ") THEN Tail(line) ELSE line

Framed(line) == IF startsWith(line, "data: ") THEN line ELSE <<"data: ">> \o line

AllBare(in) == [in EXCEPT !.lines = [i \in 1..Len(in.lines) |-> Bare(in.lines[i])]]

AllFramed(in) == [in EXCEPT !.lines = [i \in 1..Len(in.lines) |-> Framed(in.lines[i])]]

\* The deltas applied, and whether the line loop returns on a done record,
\* when the whole response arrives as one chunk.
OneChunkRun(bytes) ==
    LET segs == split(DecodeFrom(<<>>, bytes, <<>>).text)
        run == RunLines(Front(segs), <<>>)
    IN  IF run.returned THEN run
        ELSE [run EXCEPT !.deltas = @ \o RemainderDelta(Last(segs))]

C12_EnvelopePerLine ==
    Finished =>
        LET here == [deltas |-> Tail(appends), returned |-> (outcome = "done")] IN
        /\ \A i \in 1..Len(input.lines) :
              /\ LineStep(Bare(input.lines[i])) = LineStep(Framed(input.lines[i]))
              /\ RemainderStep(Bare(input.lines[i]))
                     = RemainderStep(Framed(input.lines[i]))
        /\ OneChunkRun(encode(ResponseText(AllBare(input)))) = here
        /\ OneChunkRun(encode(ResponseText(AllFramed(input)))) = here

C12_Witness ==
    /\ outcome = "done"
    /\ Len(input.lines) = 3
    /\ input.lines[1] = RecB
    /\ input.lines[2] = RecA
    /\ input.lines[3] = RecDone
    /\ Len(appends) = 4


(***************************************************************************)
(* C13.  The reader is released on every exit of the invocation: when the   *)
(* call has ended, by one of the three terminal paths or by an exception    *)
(* of the editor thrown after getReader, the lock is not held and           *)
(* releaseLock was called once.                                             *)
(***************************************************************************)
C13_ReleasedOnEveryExit ==
    pc \in {"returned", "threw"} => (~lockHeld /\ releases = 1)


(***************************************************************************)
(* C14.  No terminal notification, success or error, is emitted while the   *)
(* reader lock is still held: every Notice call comes after the             *)
(* releaseLock call.                                                        *)
(***************************************************************************)
C14_ReleaseBeforeNotice ==
    \A i \in 1..Len(log) :
        log[i].op = "Notice" => \E j \in 1..(i - 1) : log[j].op = "releaseLock"


(***************************************************************************)
(* C15.  A line without payload (an event:, id: or retry: field, a [DONE]   *)
(* marker of either form, an empty or white-space line, text that does not  *)
(* start with "{" or "[") causes no append and no notification: the         *)
(* appends after the header are as many as the records with a non-empty     *)
(* delta handled so far, the deltas are those of the response with these    *)
(* lines taken out, and no notice is emitted before the call ends.          *)
(***************************************************************************)
NoPayloadLines == ControlLines \cup BlankLines \cup SentinelLines \cup NoiseLines

CarriesDelta(line) ==
    /\ Bare(line) # <<>>
    /\ Head(Bare(line)) = "{"
    /\ Last(line) = "}"
    /\ \E k \in DOMAIN DeltaValue : PresentNonEmpty(line, k)

DeltaRecords(n) == {i \in 1..n : CarriesDelta(input.lines[i])}

C15_NoPayloadSilent ==
    /\ pc \in {"loop", "awaitRead"} =>
          Len(appends) - 1 = Cardinality(DeltaRecords(linesSeen))
    /\ pc = "delay" => Len(appends) = Cardinality(DeltaRecords(linesSeen))
    /\ pc # "returned" => notices = <<>>
    /\ Finished =>
          /\ Len(appends) - 1 = Cardinality(DeltaRecords(Len(input.lines)))
          /\ Tail(appends) = OneChunkDeltas(encode(ResponseText(
                                 Without(input, NoPayloadLines))))
          /\ notices = <<SuccessMessage>>

C15_Witness ==
    /\ outcome = "exhausted"
    /\ input.lines = <<EventLine, RecA, RetryLine>>
    /\ appends = <<HeaderText, <<"a">>>>


(***************************************************************************)
(* C16.  A complete non-blank line is classified as its trimmed form is:    *)
(* for every line the for loop has taken, the iteration ends at the same    *)
(* place (SSE field, [DONE] marker, not JSON, JSON candidate) and with the  *)
(* same candidate as it does for the line without its leading and trailing  *)
(* white space.                                                             *)
(***************************************************************************)
C16_ClassifiedAsTrimmed ==
    \A i \in 1..linesSeen :
        trim(input.lines[i]) # <<>> =>
            LineStep(input.lines[i]) = LineStep(trim(input.lines[i]))


(***************************************************************************)
(* C17.  A record ends the invocation early if and only if its done field   *)
(* is the boolean true: the invocation returns on a done record only at a   *)
(* line whose done field is true, a line whose done field is true is the    *)
(* last one handled, and a done field that is absent, false or not a        *)
(* boolean ends nothing.                                                    *)
(***************************************************************************)
HasDoneTrue(line) ==
    \E i \in 1..(Len(line) - 1) : line[i] = "done" /\ line[i + 1] = "true"

C17_FinalizesIffBooleanTrue ==
    /\ outcome = "done" => HasDoneTrue(input.lines[linesSeen])
    /\ \A i \in 1..linesSeen :
          (HasDoneTrue(input.lines[i]) /\ ~(pc = "delay" /\ i = linesSeen)) =>
              (outcome = "done" /\ linesSeen = i)


(***************************************************************************)
(* C18.  After each chunk the buffer holds no "\n" and is exactly the       *)
(* decoded text received after the last line terminator, so it is empty     *)
(* when that text ends with a terminator; the lines handed to the for loop  *)
(* so far, each with its terminator, followed by the buffer are the text    *)
(* received, nothing lost and nothing twice.                                *)
(***************************************************************************)
Received == DecodeFrom(<<>>, SubSeq(stream, 1, pos), <<>>).text

LastLF(text) ==
    IF \E i \in 1..Len(text) : text[i] = "\n"
    THEN CHOOSE i \in 1..Len(text) :
            text[i] = "\n" /\ \A j \in (i + 1)..Len(text) : text[j] # "\n"
    ELSE 0

C18_BufferIsOpenLine ==
    LET text == Received
        emitted == linesSeen + Len(lines)
    IN  /\ \A i \in 1..Len(buffer) : buffer[i] # "\n"
        /\ buffer = SubSeq(text, LastLF(text) + 1, Len(text))
        /\ (text # <<>> /\ Last(text) = "\n") => buffer = <<>>
        /\ emitted <= Len(input.lines)
        /\ lines = SubSeq(input.lines, linesSeen + 1, emitted)
        /\ Flatten([i \in 1..emitted |-> input.lines[i] \o Terminator(input.crlf)])
               \o buffer = text

C18_Witness ==
    /\ pc = "awaitRead"
    /\ chunks = 2
    /\ linesSeen = 1
    /\ input.crlf
    /\ Len(buffer) > 1
    /\ Last(buffer) = "\r"


(***************************************************************************)
(* C19.  One read() is issued per iteration of the read loop and none       *)
(* after the reader has reported exhaustion: while a read is awaited the    *)
(* reads are one more than the chunks received, otherwise as many; an       *)
(* invocation that ends by exhaustion after n chunks has made n + 1 reads,  *)
(* has drained the remainder once (the appends are the header, the deltas   *)
(* of the complete lines and the delta of the remainder) and ends with the  *)
(* success notice.                                                          *)
(***************************************************************************)
C19_OneReadPerIteration ==
    /\ pc = "awaitRead" => reads = chunks + 1
    /\ pc \in {"idle", "loop", "delay"} => reads = chunks
    /\ outcome = "done" => reads = chunks
    /\ outcome = "exhausted" =>
          /\ reads = chunks + 1
          /\ pos = Len(stream)
          /\ appends = <<HeaderText>> \o LineDeltas(SubSeq(input.lines, 1, linesSeen))
                           \o RemainderDelta(buffer)
          /\ Last(notices) = SuccessMessage

C19_Witness ==
    /\ outcome = "exhausted"
    /\ chunks = 3
    /\ reads = 4
    /\ RemainderDelta(buffer) # <<>>
    /\ Len(appends) = 3


(***************************************************************************)
(* C20.  Every invocation eventually reaches its terminal state: the call   *)
(* has returned with one of the outcomes done, exhausted or error, the      *)
(* lock has been released once and the notification of that outcome has     *)
(* been emitted.  The loop does not stall between two reads.                *)
(***************************************************************************)
Terminal ==
    /\ pc = "returned"
    /\ ~lockHeld
    /\ releases = 1
    /\ \/ outcome \in {"done", "exhausted"} /\ notices = <<SuccessMessage>>
       \/ outcome = "error" /\ Head(notices) = <<"Error during streaming: ", failure>>

C20_Terminates ==
    /\ <>Terminal
    /\ (pc = "loop") ~> (pc = "awaitRead")
    /\ (pc = "delay") ~> (pc # "delay")

C20_Witness ==
    /\ Terminal
    /\ outcome = "exhausted"
    /\ chunks = 3
    /\ linesSeen = 3


(***************************************************************************)
(* C21.  The editor is not touched after a terminal notification: in the    *)
(* order of the calls no replaceRange, setCursor or scrollIntoView follows  *)
(* a Notice, be it the success or the error notice.  When the invocation    *)
(* ends with success, every delta of the response, the one of the done      *)
(* record and the one of the final remainder included, has been appended    *)
(* before the notice.                                                       *)
(***************************************************************************)
EditorOps == {"replaceRange", "setCursor", "scrollIntoView"}

C21_NoAppendAfterNotice ==
    /\ \A i \in 1..Len(log) : \A j \in (i + 1)..Len(log) :
          log[i].op = "Notice" => log[j].op \notin EditorOps
    /\ Finished =>
          /\ Tail(appends) = OneChunkDeltas(stream)
          /\ \E i \in 1..Len(log) :
                /\ log[i] = Ev("Notice", SuccessMessage)
                /\ Len(Texts(SubSeq(log, 1, i), "replaceRange")) = Len(appends)

C21_Witness ==
    /\ outcome = "done"
    /\ input.lines = <<RecA, RecDone>>
    /\ Len(log) >= 5
    /\ SubSeq(log, Len(log) - 4, Len(log)) =
          <<Ev("replaceRange", <<"\n">>), Ev("setCursor", <<>>),
            Ev("scrollIntoView", <<>>), Ev("Notice", SuccessMessage),
            Ev("releaseLock", <<>>)>>


(***************************************************************************)
(* C22.  After every delta append the cursor is at the new end of the       *)
(* document and that line has been scrolled into view before the next       *)
(* line is handled or the invocation ends: whenever a delta has been        *)
(* appended and the invocation is not suspended in the delay of a later     *)
(* delta, the cursor is at the end of the document and the last line is     *)
(* the one scrolled to.                                                     *)
(***************************************************************************)
C22_CursorFollowsDelta ==
    (pc # "delay" /\ Len(appends) >= 2) =>
        /\ cursor = EndOf(doc)
        /\ scrollTo = lastLine(doc)


(***************************************************************************)
(* C23.  At exhaustion the decoder is flushed: an incomplete sequence held  *)
(* from the last chunk reaches the remainder as U+FFFD before the final     *)
(* drain, so the remainder drained is the buffer followed by the flushed    *)
(* text.  Before exhaustion an incomplete sequence at the end of a chunk    *)
(* is held and completed by the next chunk: buffer and held bytes together  *)
(* are what one decode of all the bytes received gives.                     *)
(***************************************************************************)
\* TextDecoder.decode() without {stream: true}: the end-of-stream flush.
FinalFlush(pend) == IF pend = <<>> THEN <<>> ELSE <<"U+FFFD">>

C23_DecoderFlushed ==
    /\ pending = DecodeFrom(<<>>, SubSeq(stream, 1, pos), <<>>).pending
    /\ outcome = "exhausted" =>
          appends = <<HeaderText>> \o LineDeltas(SubSeq(input.lines, 1, linesSeen))
                        \o RemainderDelta(buffer \o FinalFlush(pending))


(***************************************************************************)
(* C24.  Two invocations interleaved on one editor: each buffer is the      *)
(* open line of the text its own reader delivered, never joined with text   *)
(* of the other; each reader is released exactly once; and the deltas of    *)
(* each invocation stand in the document in the order of its own stream,    *)
(* as a subsequence of the document.                                        *)
(***************************************************************************)
PeerReceived == DecodeFrom(<<>>, SubSeq(peer.stream, 1, peer.pos), <<>>).text

OwnSymbols == {"H", "a", "U+00E9"}
PeerSymbols == {"G", "c", "d"}

IsOwn(x) == x \in OwnSymbols
IsPeers(x) == x \in PeerSymbols
IsDelta(x) == x \in (OwnSymbols \cup PeerSymbols) \ {"H", "G"}

C24_InvocationsIsolated ==
    /\ buffer = SubSeq(Received, LastLF(Received) + 1, Len(Received))
    /\ peer.buffer = SubSeq(PeerReceived, LastLF(PeerReceived) + 1, Len(PeerReceived))
    /\ pc = "returned" => (~lockHeld /\ releases = 1)
    /\ peer.pc = "returned" =>
          (~peer.lockHeld /\ Len(Texts(peer.log, "releaseLock")) = 1)
    /\ pc # "idle" =>
          /\ SelectSeq(doc, IsOwn) = SelectSeq(Flatten(appends), IsOwn)
          /\ IsPrefix(Tail(appends), AllDeltas(stream))
    /\ peer.pc # "idle" =>
          /\ SelectSeq(doc, IsPeers) = SelectSeq(Flatten(Texts(peer.log, "replaceRange")),
                                                 IsPeers)
          /\ IsPrefix(Tail(Texts(peer.log, "replaceRange")), AllDeltas(peer.stream))
    /\ (outcome = "exhausted" /\ peer.outcome = "exhausted") =>
          /\ Tail(appends) = AllDeltas(stream)
          /\ Tail(Texts(peer.log, "replaceRange")) = AllDeltas(peer.stream)

C24_Witness ==
    /\ outcome = "exhausted"
    /\ peer.outcome = "exhausted"
    /\ chunks >= 2
    /\ peer.chunks = 2
    /\ SelectSeq(doc, IsDelta) = <<"a", "c", "U+00E9", "d">>


(***************************************************************************)
(* C25.  Only a rejected read() leads to the error outcome.  An exception   *)
(* thrown by the editor while a delta is applied is taken by the catch of   *)
(* the line's try statement, shows no notification, and the loop goes on    *)
(* with the next line: every line of the response is still handled and the  *)
(* invocation can end with the success notification alone.                  *)
(***************************************************************************)
CompleteLines(in) ==
    IF in.lines = <<>> THEN 0
    ELSE Len(in.lines) - (IF in.terminated THEN 0 ELSE 1)

C25_OnlyRejectedReadIsError ==
    /\ \A i \in 1..Len(log) :
          (log[i].op = "Notice" /\ log[i].text # SuccessMessage) =>
              /\ failure \in ErrorMessages
              /\ log[i].text = ErrorNotice(failure)
              /\ reads = chunks + 1
              /\ outcome = "error"
    /\ outcome = "error" <=> failure # ""
    /\ pc \in {"idle", "loop", "awaitRead", "delay", "threw"} => notices = <<>>
    /\ Finished => notices = <<SuccessMessage>>
    /\ outcome = "exhausted" => linesSeen = CompleteLines(input)

\* Two records: the editor throws under the first delta, the second is applied.
C25_Witness ==
    /\ outcome = "exhausted"
    /\ input.lines = <<RecA, RecA>>
    /\ input.terminated
    /\ appends = <<HeaderText, <<"a">>>>
    /\ notices = <<SuccessMessage>>
    /\ Len(log) >= 5
    /\ SubSeq(log, Len(log) - 4, Len(log)) =
          <<Ev("replaceRange", <<"a">>), Ev("setCursor", <<>>), Ev("scrollIntoView", <<>>),
            Ev("releaseLock", <<>>), Ev("Notice", SuccessMessage)>>


(***************************************************************************)
(* SummarizeOperation.execute (src/operations/summarize.ts).  The AI        *)
(* service and the streaming consumer are the collaborators the operation   *)
(* was constructed with: the AI request resolves with the scripted response *)
(* or rejects, response.json() resolves or rejects, and the consumer's      *)
(* promise resolves or rejects.  The editor is doc and cursor.              *)
(***************************************************************************)
DefaultMaxLength == 200
SetMaxLength == 150

MissingConfigNotice == <<"Please configure the summarize settings in the plugin settings first">>
MissingUrlNotice == <<"Please set the API URL in settings">>
SummarizedNotice == <<"Text summarized successfully">>
SummarizeErrorNotice == <<"Error summarizing text. Please check your API settings.">>
SummaryHeader == <<"\n", "\n", "**Summary:**", "\n", "\n">>

\* settings.summarize: absent, or a section whose stream flag is true, false or
\* not set and whose maxLength is 0 or a positive number.
NoSection == [present |-> FALSE, stream |-> "undefined", maxLength |-> 0]

SummarizeSections ==
    {NoSection} \cup [present : {TRUE}, stream : {"true", "false", "undefined"},
                      maxLength : {0, SetMaxLength}]

SettingsValues == [summarize : SummarizeSections, apiUrl : {"", "https://api"}]

ContentTypes == {"text/event-stream", "application/x-ndjson", "application/json", ""}

\* What aiService.summarize does: it rejects, or resolves with a response that
\* has a content type, a body or none, and a json() that resolves with an
\* object with or without a summary field, or rejects.
Rejection == [rejects |-> TRUE, contentType |-> "", body |-> FALSE, json |-> "rejects"]

Responses ==
    {Rejection} \cup [rejects : {FALSE}, contentType : ContentTypes, body : BOOLEAN,
                      json : {"summary", "object", "rejects"}]

SummaryOf(resp) == IF resp.json = "summary" THEN <<"s">> ELSE <<"undefined">>

\* a || b of line 36.
NumberOr(a, b) == IF a = 0 THEN b ELSE a

RequestBody(text, section) ==
    [payload |-> [text |-> text, maxLength |-> NumberOr(section.maxLength, DefaultMaxLength)],
     config |-> [stream |-> section.stream]]

\* Lines 49-53.
IsStreaming(section, resp) ==
    /\ section.stream = "true"
    /\ \/ resp.contentType = "text/event-stream"
       \/ resp.contentType = "application/x-ndjson"
       \/ resp.body

TakesStreamingPath(section, resp) == IsStreaming(section, resp) /\ resp.body

Dormant ==
    /\ input = [lines |-> <<>>, crlf |-> FALSE, terminated |-> TRUE]
    /\ stream = <<>>
    /\ pos = 0
    /\ reads = 0
    /\ chunks = 0
    /\ pending = <<>>
    /\ buffer = <<>>
    /\ lines = <<>>
    /\ cur = NoFields
    /\ pc = "idle"
    /\ doc = InitialDoc
    /\ cursor = [line |-> 0, ch |-> 0]
    /\ scrollTo = -1
    /\ log = <<>>
    /\ lockHeld = FALSE
    /\ linesSeen = 0
    /\ sentinelSeen = FALSE
    /\ doneSeen = FALSE
    /\ outcome = "none"
    /\ failure = ""
    /\ peer = NoPeer

InitSummarize ==
    /\ Dormant
    /\ summarize \in {[settings |-> s, response |-> r, editorThrows |-> e, pc |-> "idle",
                       requests |-> <<>>, consumerCalls |-> <<>>, jsonReads |-> 0,
                       notices |-> <<>>, errors |-> 0] :
                          s \in SettingsValues, r \in Responses, e \in BOOLEAN}
    /\ uiState = NoUI
    /\ configService = NoConfigService

streaming == <<input, stream, pos, reads, chunks, pending, buffer, lines, cur, pc, scrollTo,
               log, lockHeld, linesSeen, sentinelSeen, doneSeen, outcome, failure, peer>>

\* Lines 66-69.
Caught(call) ==
    [call EXCEPT !.pc = "returned", !.errors = @ + 1,
                 !.notices = Append(@, SummarizeErrorNotice)]

\* Execute without the test of line 27.
ExecuteNoUrlGuard ==
    /\ summarize.pc = "idle"
    /\ LET section == summarize.settings.summarize IN
       summarize' =
          IF ~section.present
          THEN [summarize EXCEPT !.pc = "returned",
                                 !.notices = Append(@, MissingConfigNotice)]
          ELSE [summarize EXCEPT !.pc = "awaitSummarize",
                                 !.requests = Append(@, RequestBody("t", section))]
    /\ UNCHANGED <<streaming, doc, cursor, uiState, configService>>

\* Lines 21-46, up to the await.
Execute ==
    /\ summarize.pc = "idle"
    /\ LET section == summarize.settings.summarize IN
       summarize' =
          IF ~section.present
          THEN [summarize EXCEPT !.pc = "returned",
                                 !.notices = Append(@, MissingConfigNotice)]
          ELSE IF summarize.settings.apiUrl = ""
          THEN [summarize EXCEPT !.pc = "returned",
                                 !.notices = Append(@, MissingUrlNotice)]
          ELSE [summarize EXCEPT !.pc = "awaitSummarize",
                                 !.requests = Append(@, RequestBody("t", section))]
    /\ UNCHANGED <<streaming, doc, cursor, uiState, configService>>

\* SummarizeResolves without the body test of line 53.
SummarizeResolvesIgnoresBody ==
    /\ summarize.pc = "awaitSummarize"
    /\ ~summarize.response.rejects
    /\ summarize' =
          IF IsStreaming(summarize.settings.summarize, summarize.response)
          THEN [summarize EXCEPT !.pc = "awaitConsumer",
                   !.consumerCalls = Append(@, [headerText |-> SummaryHeader,
                                                successMessage |-> SummarizedNotice])]
          ELSE [summarize EXCEPT !.pc = "awaitJson", !.jsonReads = @ + 1]
    /\ UNCHANGED <<streaming, doc, cursor, uiState, configService>>

\* Lines 46-62: the request resolves; up to the next await.
SummarizeResolves ==
    /\ summarize.pc = "awaitSummarize"
    /\ ~summarize.response.rejects
    /\ summarize' =
          IF TakesStreamingPath(summarize.settings.summarize, summarize.response)
          THEN [summarize EXCEPT !.pc = "awaitConsumer",
                   !.consumerCalls = Append(@, [headerText |-> SummaryHeader,
                                                successMessage |-> SummarizedNotice])]
          ELSE [summarize EXCEPT !.pc = "awaitJson", !.jsonReads = @ + 1]
    /\ UNCHANGED <<streaming, doc, cursor, uiState, configService>>

\* Lines 46 and 66-69: the request rejects.
SummarizeRejects ==
    /\ summarize.pc = "awaitSummarize"
    /\ summarize.response.rejects
    /\ summarize' = Caught(summarize)
    /\ UNCHANGED <<streaming, doc, cursor, uiState, configService>>

\* Lines 62-64: json() resolves; appendToEndOfDocument sets the cursor and
\* inserts, and an editor that throws does so in replaceRange.
JsonResolves ==
    /\ summarize.pc = "awaitJson"
    /\ summarize.response.json # "rejects"
    /\ cursor' = EndOf(doc)
    /\ IF summarize.editorThrows
       THEN /\ summarize' = Caught(summarize)
            /\ doc' = doc
       ELSE /\ summarize' = [summarize EXCEPT !.pc = "returned",
                                              !.notices = Append(@, SummarizedNotice)]
            /\ doc' = replaceRange(doc,
                          SummaryHeader \o <<" ">> \o SummaryOf(summarize.response),
                          EndOf(doc))
    /\ UNCHANGED <<streaming, uiState, configService>>

\* Lines 62 and 66-69: json() rejects.
JsonRejects ==
    /\ summarize.pc = "awaitJson"
    /\ summarize.response.json = "rejects"
    /\ summarize' = Caught(summarize)
    /\ UNCHANGED <<streaming, doc, cursor, uiState, configService>>

\* Lines 54-59: the consumer's promise resolves.
ConsumerResolves ==
    /\ summarize.pc = "awaitConsumer"
    /\ summarize' = [summarize EXCEPT !.pc = "returned"]
    /\ UNCHANGED <<streaming, doc, cursor, uiState, configService>>

\* Lines 54-59 and 66-69: the consumer's promise rejects.
ConsumerRejects ==
    /\ summarize.pc = "awaitConsumer"
    /\ summarize' = Caught(summarize)
    /\ UNCHANGED <<streaming, doc, cursor, uiState, configService>>

NextSummarize ==
    \/ Execute
    \/ SummarizeResolves
    \/ SummarizeRejects
    \/ JsonResolves
    \/ JsonRejects
    \/ ConsumerResolves
    \/ ConsumerRejects

SpecSummarize == InitSummarize /\ [][NextSummarize]_vars


(***************************************************************************)
(* C26.  execute with no summarize settings or an empty API URL shows a     *)
(* notice and returns: no AI request, no call of the streaming consumer, no *)
(* change of the editor.  When the AI request rejects, the error notice is  *)
(* shown, and again the consumer is not called and the editor not changed.  *)
(***************************************************************************)
EditorUntouched == doc = InitialDoc /\ cursor = [line |-> 0, ch |-> 0]

Resolved == Len(summarize.requests) = 1 /\ ~summarize.response.rejects

SummaryAppended ==
    doc = InitialDoc \o SummaryHeader \o <<" ">> \o SummaryOf(summarize.response)

C27_ExactlyOnePath ==
    (summarize.pc = "returned" /\ Resolved) =>
        /\ Len(summarize.consumerCalls) = 1 <=>
              (summarize.settings.summarize.stream = "true" /\ summarize.response.body)
        /\ Len(summarize.consumerCalls) + summarize.jsonReads = 1
        /\ summarize.consumerCalls = <<>> =>
              /\ SummaryAppended
              /\ summarize.notices = <<SummarizedNotice>>

(***************************************************************************)
(* C27, amended.  On the JSON path the summary is appended and the success  *)
(* notice shown only if json() resolves and the editor takes the insertion: *)
(* if json() rejects or the editor throws, nothing is appended and the      *)
(* error notice is shown in place of the success notice.                    *)
(***************************************************************************)
C27_OnePathPerResponse ==
    /\ (summarize.pc \in {"awaitConsumer", "awaitJson", "returned"} /\ Resolved) =>
          /\ Len(summarize.consumerCalls) = 1 <=>
                (summarize.settings.summarize.stream = "true" /\ summarize.response.body)
          /\ Len(summarize.consumerCalls) + summarize.jsonReads = 1
    /\ (summarize.pc = "returned" /\ Resolved /\ summarize.jsonReads = 1) =>
          IF summarize.response.json # "rejects" /\ ~summarize.editorThrows
          THEN /\ SummaryAppended
               /\ summarize.notices = <<SummarizedNotice>>
          ELSE /\ doc = InitialDoc
               /\ summarize.notices = <<SummarizeErrorNotice>>

\* The stream setting is on and the content type is a streaming one, but the
\* response has no body: the JSON path, the summary appended.
C27_Witness ==
    /\ summarize.pc = "returned"
    /\ Resolved
    /\ summarize.settings.summarize.stream = "true"
    /\ summarize.response.contentType = "text/event-stream"
    /\ ~summarize.response.body
    /\ summarize.jsonReads = 1
    /\ summarize.consumerCalls = <<>>
    /\ SummaryAppended
    /\ summarize.notices = <<SummarizedNotice>>


(***************************************************************************)
(* UIStateService (src/services/ui-state-service.ts) and the compose        *)
(* modals that were given it.  calls is the history of setModalState calls  *)
(* with their callers, events the payloads of the 'modal-state-change'      *)
(* events triggered.                                                        *)
(***************************************************************************)
MaxCalls == 4
Modals == {"m1", "m2"}

\* setModalState that triggers on every call.
setModalStateAlways(ui, isOpen, by) ==
    [ui EXCEPT !.isModalOpen = isOpen,
               !.events = Append(@, isOpen),
               !.calls = Append(@, [isOpen |-> isOpen, by |-> by])]

\* Lines 16-21.
setModalState(ui, isOpen, by) ==
    IF ui.isModalOpen # isOpen
    THEN [ui EXCEPT !.isModalOpen = isOpen,
                    !.events = Append(@, isOpen),
                    !.calls = Append(@, [isOpen |-> isOpen, by |-> by])]
    ELSE [ui EXCEPT !.calls = Append(@, [isOpen |-> isOpen, by |-> by])]

InitUI ==
    /\ Dormant
    /\ summarize = NoCall
    /\ uiState = [isModalOpen |-> FALSE, events |-> <<>>, calls |-> <<>>,
                  modals |-> [m \in Modals |-> "closed"]]
    /\ configService = NoConfigService

\* Any holder of the service calls setModalState.
SetModalState ==
    /\ Len(uiState.calls) < MaxCalls
    /\ \E isOpen \in BOOLEAN :
        uiState' = setModalState(uiState, isOpen, "caller")
    /\ UNCHANGED <<streaming, doc, cursor, summarize, configService>>

\* ComposePromptModal.onOpen, line 34.
OnOpen ==
    /\ Len(uiState.calls) < MaxCalls
    /\ \E m \in Modals :
        /\ uiState.modals[m] = "closed"
        /\ uiState' = [setModalState(uiState, TRUE, "onOpen") EXCEPT !.modals[m] = "open"]
    /\ UNCHANGED <<streaming, doc, cursor, summarize, configService>>

\* ComposePromptModal.onClose, line 176.
OnClose ==
    /\ Len(uiState.calls) < MaxCalls
    /\ \E m \in Modals :
        /\ uiState.modals[m] = "open"
        /\ uiState' = [setModalState(uiState, FALSE, "onClose") EXCEPT !.modals[m] = "closed"]
    /\ UNCHANGED <<streaming, doc, cursor, summarize, configService>>

NextUI ==
    \/ SetModalState
    \/ OnOpen
    \/ OnClose

SpecUI == InitUI /\ [][NextUI]_vars


(***************************************************************************)
(* C28.  After any sequence of setModalState calls isModalOpen is the       *)
(* argument of the last call, false before the first; a                     *)
(* 'modal-state-change' event is triggered exactly by the calls that change *)
(* the value; a call with the current value changes nothing and triggers    *)
(* nothing.  The compose modal calls it with true on open and with false on *)
(* close.                                                                   *)
(***************************************************************************)
\* The arguments of the calls that differ from the value before them.
RECURSIVE Changes(_, _)
Changes(cs, before) ==
    IF cs = <<>> THEN <<>>
    ELSE (IF Head(cs).isOpen # before THEN <<Head(cs).isOpen>> ELSE <<>>)
            \o Changes(Tail(cs), Head(cs).isOpen)

Sections == {"summarize", "keywords", "translate", "rewrite", "compose"}

SectionValues(sec) ==
    IF sec \in {"summarize", "compose"} THEN {"none", "s1", "s2"} ELSE {"none", "s1"}

SettingsObjects == {s \in [Sections -> {"none", "s1", "s2"}] :
                       \A sec \in Sections : s[sec] \in SectionValues(sec)}

NullConfig == [present |-> FALSE, sections |-> [sec \in Sections |-> "none"]]

\* initializeConfigFromSettings without the test of lines 23-27.
initializeConfigUnchecked(cs) ==
    [cs EXCEPT !.config = [present |-> TRUE, sections |-> cs.settings],
               !.console = "Config initialized from plugin settings:"]

\* Lines 21-37.
initializeConfigFromSettings(cs) ==
    IF \E sec \in Sections : cs.settings[sec] = "none"
    THEN [cs EXCEPT !.console = "Missing required operation settings"]
    ELSE [cs EXCEPT !.config = [present |-> TRUE, sections |-> cs.settings],
                    !.console = "Config initialized from plugin settings:"]

\* Lines 8-16.
Constructed(s) ==
    initializeConfigFromSettings(
        [settings |-> s, config |-> NullConfig, configWatcher |-> "null",
         held |-> NullConfig, vault |-> [on |-> 0, offref |-> 0],
         console |-> "", called |-> {}])

getConfig(cs) == cs.config

InitConfig ==
    /\ Dormant
    /\ summarize = NoCall
    /\ uiState = NoUI
    /\ configService \in {Constructed(s) : s \in SettingsObjects}

\* Lines 43-47.
UpdateSettings ==
    /\ \E s \in SettingsObjects :
        configService' = initializeConfigFromSettings(
            [configService EXCEPT !.settings = s, !.held = configService.config])
    /\ UNCHANGED <<streaming, doc, cursor, summarize, uiState>>

\* Lines 142-151.
SetupConfigWatcher ==
    /\ configService' =
          [configService EXCEPT
              !.vault.offref = IF configService.configWatcher # "null" THEN @ + 1 ELSE @,
              !.console = "Config watcher setup skipped (using UI settings)",
              !.called = @ \cup {"setupConfigWatcher"}]
    /\ UNCHANGED <<streaming, doc, cursor, summarize, uiState>>

\* Lines 156-160.
LoadConfig ==
    /\ configService' =
          [configService EXCEPT
              !.console = "YAML config loading skipped (using UI settings)",
              !.called = @ \cup {"loadConfig"}]
    /\ UNCHANGED <<streaming, doc, cursor, summarize, uiState>>

\* Lines 162-168.
Cleanup ==
    /\ configService' =
          [configService EXCEPT
              !.vault.offref = IF configService.configWatcher # "null" THEN @ + 1 ELSE @,
              !.configWatcher = "null",
              !.called = @ \cup {"cleanup"}]
    /\ UNCHANGED <<streaming, doc, cursor, summarize, uiState>>

NextConfig ==
    \/ UpdateSettings
    \/ SetupConfigWatcher
    \/ LoadConfig
    \/ Cleanup

SpecConfig == InitConfig /\ [][NextConfig]_vars


(***************************************************************************)
(* C29.  After construction or updateSettings(s) with all five sections set *)
(* in s, getConfig() returns exactly the five sections of s; with a section *)
(* missing in s the config held before is left as it was.                   *)
(* setupConfigWatcher, loadConfig and cleanup never register or unregister  *)
(* a vault watcher.                                                         *)
(***************************************************************************)
Complete(s) == \A sec \in Sections : s[sec] # "none"

====
